---------------------------- MODULE Spec2Model ----------------------------
(***************************************************************************)
(* SOFA scoring engine of FHIR-Data-Enrichment (main.py, fhir_io.py,      *)
(* scoring.py, utils.py) as a state machine.                               *)
(*                                                                         *)
(* Numbers.  Python floats are modelled as exact rationals n/d (d > 0);   *)
(* comparisons are made by cross-multiplication, division by swapping.    *)
(* Python's None is the record None, float NaN the record NaN.            *)
(* Instants are minutes since an epoch (an aware UTC datetime).           *)
(***************************************************************************)
EXTENDS Integers, Sequences, FiniteSets, TLC

VARIABLES
    raw_obs,        \* fetch_observations_for_subject's result (list of dict)
    raw_meds,       \* fetch_medication_administrations_for_subject's result
    pc,             \* position in compute_patient_sofa / in a unit call
    obs_df,         \* observations_to_df's rows
    meds_df,        \* medications_to_df's rows
    metrics,        \* metric name -> list of (effective, value)
    pressor_times,  \* effective -> {pressor: rate}
    times,          \* sorted distinct observation instants
    visited,        \* candidate timestamps whose loop body has run
    rows,           \* the rows appended so far
    locals,         \* the loop body's locals at its last run
    call,           \* a unit call: function name and arguments
    ret             \* its return value

vars == <<raw_obs, raw_meds, pc, obs_df, meds_df, metrics, pressor_times,
          times, visited, rows, locals, call, ret>>

-----------------------------------------------------------------------------
(* Values *)

None == [k |-> "none"]
NaN == [k |-> "nan"]
R(n, d) == [k |-> "num", n |-> n, d |-> d]
Sc(v) == [k |-> "int", v |-> v]
IsNum(a) == a.k = "num"

\* float comparisons; any comparison with NaN is False
Lt(a, b) == IsNum(a) /\ IsNum(b) /\ a.n * b.d < b.n * a.d
Le(a, b) == IsNum(a) /\ IsNum(b) /\ a.n * b.d <= b.n * a.d
Gt(a, b) == Lt(b, a)
Ge(a, b) == Le(b, a)
NumEq(a, b) == IsNum(a) /\ IsNum(b) /\ a.n * b.d = b.n * a.d

\* a / b for b > 0 (NaN in, NaN out)
Div(a, b) == IF IsNum(a) /\ IsNum(b) THEN R(a.n * b.d, a.d * b.n) ELSE NaN

\* bool(x) of a float
Truthy(a) == ~IsNum(a) \/ a.n # 0

-----------------------------------------------------------------------------
(* scoring.py *)

ScoreResp(pao2_fio2, spo2_fio2, on_resp_support) ==
    IF pao2_fio2 # None /\ IsNum(pao2_fio2)
    THEN IF Ge(pao2_fio2, R(400, 1)) THEN Sc(0)
         ELSE IF Lt(pao2_fio2, R(400, 1)) /\ Ge(pao2_fio2, R(300, 1)) THEN Sc(1)
         ELSE IF Lt(pao2_fio2, R(300, 1)) /\ Ge(pao2_fio2, R(200, 1)) THEN Sc(2)
         ELSE IF Lt(pao2_fio2, R(200, 1)) /\ Ge(pao2_fio2, R(100, 1)) THEN Sc(3)
         ELSE IF Lt(pao2_fio2, R(100, 1)) THEN Sc(4)
         ELSE None
    ELSE IF spo2_fio2 = None \/ ~IsNum(spo2_fio2) THEN None
    ELSE IF Gt(spo2_fio2, R(302, 1)) THEN Sc(0)
    ELSE IF Lt(spo2_fio2, R(302, 1)) /\ Ge(spo2_fio2, R(221, 1)) THEN Sc(1)
    ELSE IF Lt(spo2_fio2, R(221, 1)) /\ Ge(spo2_fio2, R(142, 1)) THEN Sc(2)
    ELSE IF Lt(spo2_fio2, R(142, 1)) 
         THEN (IF on_resp_support THEN Sc(3) ELSE Sc(2))
    ELSE IF Lt(spo2_fio2, R(67, 1))
         THEN (IF on_resp_support THEN Sc(4) ELSE Sc(3))
    ELSE None

ScoreCoag(v) ==
    IF v = None THEN None
    ELSE IF Ge(v, R(150, 1)) THEN Sc(0)
    ELSE IF Lt(v, R(150, 1)) /\ Ge(v, R(100, 1)) THEN Sc(1)
    ELSE IF Lt(v, R(100, 1)) /\ Ge(v, R(50, 1)) THEN Sc(2)
    ELSE IF Lt(v, R(50, 1)) /\ Ge(v, R(20, 1)) THEN Sc(3)
    ELSE IF Lt(v, R(20, 1)) THEN Sc(4)
    ELSE None

ScoreLiver(v) ==
    IF v = None THEN None
    ELSE IF Lt(v, R(12, 10)) THEN Sc(0)
    ELSE IF Le(R(12, 10), v) /\ Le(v, R(19, 10)) THEN Sc(1)
    ELSE IF Le(R(20, 10), v) /\ Le(v, R(59, 10)) THEN Sc(2)
    ELSE IF Le(R(60, 10), v) /\ Le(v, R(119, 10)) THEN Sc(3)
    ELSE IF Ge(v, R(120, 10)) THEN Sc(4)
    ELSE None

\* dict.get(key) of a pressor bundle [k |-> "dict", d |-> name -> rate]
Get(pressor, key) == IF key \in DOMAIN pressor.d THEN pressor.d[key] ELSE None

\* bool(pressor): None and {} are falsy
DictTruthy(pressor) == pressor.k = "dict" /\ DOMAIN pressor.d # {}

\* variant: the dopamine band of score 3 with its lower end excluded
MutDopamineMid(dop) == dop # None /\ Lt(R(51, 10), dop) /\ Le(dop, R(15, 1))

\* line 56: dop is not None and 5.1 <= dop <= 15
DopamineMid(dop) == dop # None /\ Le(R(51, 10), dop) /\ Le(dop, R(15, 1))

\* the body of `if pressor:`; None when it falls through to the MAP rule
ScoreCardioPressor(pressor) ==
    LET dob == Get(pressor, "dobutamine")
        dop == Get(pressor, "dopamine")
        ne == Get(pressor, "norepinephrine")
        epi == Get(pressor, "epinephrine")
    IN  IF dob # None THEN Sc(2)
        ELSE IF (dop # None /\ Gt(dop, R(15, 1)))
                \/ (ne # None /\ Gt(ne, R(1, 10)))
                \/ (epi # None /\ Gt(epi, R(1, 10))) THEN Sc(4)
        ELSE IF DopamineMid(dop)
                \/ (ne # None /\ Lt(R(0, 1), ne) /\ Le(ne, R(1, 10)))
                \/ (epi # None /\ Lt(R(0, 1), epi) /\ Le(epi, R(1, 10))) THEN Sc(3)
        ELSE IF dop # None /\ Lt(dop, R(5, 1)) THEN Sc(2)
        ELSE None

ScoreCardio(map_mmHg, pressor) ==
    LET p == IF DictTruthy(pressor) THEN ScoreCardioPressor(pressor) ELSE None
    IN  IF p # None THEN p
        ELSE IF map_mmHg = None THEN None
        ELSE IF Ge(map_mmHg, R(70, 1)) THEN Sc(0) ELSE Sc(1)

ScoreCns(v) ==
    IF v = None THEN None
    ELSE IF NumEq(v, R(15, 1)) THEN Sc(0)
    ELSE IF Le(R(13, 1), v) /\ Le(v, R(14, 1)) THEN Sc(1)
    ELSE IF Le(R(10, 1), v) /\ Le(v, R(12, 1)) THEN Sc(2)
    ELSE IF Le(R(6, 1), v) /\ Le(v, R(9, 1)) THEN Sc(3)
    ELSE IF Lt(v, R(6, 1)) THEN Sc(4)
    ELSE None

ScoreRenal(v) ==
    IF v = None THEN None
    ELSE IF Lt(v, R(12, 10)) THEN Sc(0)
    ELSE IF Le(R(12, 10), v) /\ Le(v, R(19, 10)) THEN Sc(1)
    ELSE IF Le(R(20, 10), v) /\ Le(v, R(34, 10)) THEN Sc(2)
    ELSE IF Le(R(35, 10), v) /\ Le(v, R(49, 10)) THEN Sc(3)
    ELSE IF Ge(v, R(50, 10)) THEN Sc(4)
    ELSE None

-----------------------------------------------------------------------------
(* utils.py *)

WINDOW_HOURS == 6
MinutesPerHour == 60

Raise == [k |-> "raise"]
Ok(v) == [k |-> "ok", v |-> v]

\* A timestamp text is [form, minute, off]: the wall-clock minute it writes
\* and the offset (minutes) it states.  Forms: "zulu" (matches ISO_FMT),
\* "zulu_frac" (ends in Z, fractional seconds: strptime fails, the fallback
\* parses it), "offset" (explicit +hh:mm), "garbage" (no ISO date at all),
\* "absent" (no text).
ParseTime(ts) ==
    IF ts.form = "zulu" THEN Ok(ts.minute)
    ELSE IF ts.form = "zulu_frac" THEN Ok(ts.minute)
    ELSE IF ts.form = "offset" THEN Ok(ts.minute - ts.off)
    ELSE Raise

\* variant: the window open at its start
MutInWindow(window_start, rt, t) == window_start < rt /\ rt <= t

\* line 27: window_start <= rt <= t
InWindow(window_start, rt, t) == window_start <= rt /\ rt <= t

\* the for loop of latest_within from record i on; st = (latest_t, latest_val)
RECURSIVE LatestWithinLoop(_, _, _, _, _)
LatestWithinLoop(records, i, window_start, t, st) ==
    IF i > Len(records) THEN st.latest_val
    ELSE LET rt == records[i][1]
             val == records[i][2]
             take == InWindow(window_start, rt, t)
                     /\ (st.latest_t = None \/ rt > st.latest_t.v)
         IN  LatestWithinLoop(records, i + 1, window_start, t,
                 IF take THEN [latest_t |-> Ok(rt), latest_val |-> val] ELSE st)

LatestWithin(records, t, window_hours) ==
    LatestWithinLoop(records, 1, t - window_hours * MinutesPerHour, t,
                     [latest_t |-> None, latest_val |-> None])

\* str.strip and str.lower on the unit texts the model uses
Strip(unit) == IF unit = " % " THEN "%" ELSE unit

Lower(unit) ==
    CASE unit = "Percent" -> "percent"
      [] unit = "MCG/KG/MIN" -> "mcg/kg/min"
      [] OTHER -> unit

StripLower(unit) == Lower(Strip(unit))

\* "None" is the absent unit, "" the empty text: both falsy
UnitTruthy(unit) == unit # "None" /\ unit # ""

NormFio2(val, unit) ==
    IF val = None THEN None
    ELSE IF UnitTruthy(unit) /\ StripLower(unit) \in {"%", "percent", "perc"}
         THEN Div(val, R(100, 1))
    ELSE IF Gt(val, R(15, 10)) THEN Div(val, R(100, 1))
    ELSE val

\* a raw JSON value: None, a number R(n, d), a numeric text [k |-> "str", v |-> R(n, d)],
\* or a non-numeric text [k |-> "text"]
SafeFloat(x) ==
    IF x = None THEN None
    ELSE IF x.k = "num" THEN x
    ELSE IF x.k = "str" THEN x.v
    ELSE None

SetMin(S) == CHOOSE x \in S : \A y \in S : x <= y

\* sorted(set(times))
RECURSIVE SortedSet(_)
SortedSet(S) == IF S = {} THEN <<>> ELSE <<SetMin(S)>> \o SortedSet(S \ {SetMin(S)})

RoundTimesToObservationTicks(ts) == SortedSet({ts[i] : i \in 1..Len(ts)})

-----------------------------------------------------------------------------
(* fhir_io.py: observations *)

\* Python's `a or b` on optional texts
OrText(a, b) == IF UnitTruthy(a) THEN a ELSE b

NoTime == [form |-> "absent", minute |-> 0, off |-> 0]

LOINC_MAP ==
    [c \in {"2703-7", "3150-0", "59408-5", "2708-6", "8478-0", "777-3",
            "1975-2", "2160-0", "9269-2"} |->
        CASE c = "2703-7" -> "PaO2"
          [] c = "3150-0" -> "FiO2"
          [] c = "59408-5" -> "SpO2"
          [] c = "2708-6" -> "SpO2"
          [] c = "8478-0" -> "MAP"
          [] c = "777-3" -> "Platelets"
          [] c = "1975-2" -> "Bilirubin"
          [] c = "2160-0" -> "Creatinine"
          [] c = "9269-2" -> "GCS"]

\* in the dict's order
DISPLAY_KEYWORDS ==
    << <<"PaO2", {"pao2", "partial pressure oxygen", "arterial oxygen"}>>,
       <<"FiO2", {"fio2", "inspired oxygen", "fraction of inspired oxygen",
                  "inhaled oxygen"}>>,
       <<"SpO2", {"spo2", "oxygen saturation", "pulse oximetry"}>>,
       <<"MAP", {"map", "mean arterial pressure"}>>,
       <<"Platelets", {"platelet"}>>,
       <<"Bilirubin", {"bilirubin"}>>,
       <<"Creatinine", {"creatinine"}>>,
       <<"GCS", {"glasgow coma", "gcs total", "gcs score"}>> >>

\* first entry of `table` one of whose keywords occurs in the text; a text is
\* modelled by the set of the table's keywords that occur in it, lowercased
KeywordMatch(table, text) ==
    LET hits == {i \in 1..Len(table) : table[i][2] \cap text # {}}
    IN  IF hits = {} THEN "None" ELSE table[SetMin(hits)][1]

\* o = [code, text, value, unit, ucode, effectiveDateTime, issued]:
\* codings[0].code ("None": no coding or no code), the keywords in
\* display + ' ' + code.text, valueQuantity.value / .unit / .code, the two
\* timestamp texts
ObsEntryToRow(o) ==
    LET metric == IF o.code # "None" /\ o.code \in DOMAIN LOINC_MAP
                  THEN LOINC_MAP[o.code]
                  ELSE KeywordMatch(DISPLAY_KEYWORDS, o.text)
        val == SafeFloat(o.value)
        unit == OrText(o.unit, o.ucode)
        t == IF o.effectiveDateTime.form # "absent" THEN o.effectiveDateTime
             ELSE o.issued
    IN  IF metric = "None" THEN None
        ELSE IF val = None \/ t.form = "absent" THEN None
        ELSE IF ParseTime(t) = Raise THEN Raise
        ELSE [k |-> "row", metric |-> metric, value |-> val, unit |-> unit,
              effective |-> ParseTime(t).v]

\* the loop `for o in observations`: the rows, or Raise when a call raises
RECURSIVE ObsRows(_, _, _)
ObsRows(observations, i, acc) ==
    IF i > Len(observations) THEN Ok(acc)
    ELSE LET r == ObsEntryToRow(observations[i])
         IN  IF r = Raise THEN Raise
             ELSE ObsRows(observations, i + 1,
                          IF r = None THEN acc ELSE Append(acc, r))

\* stable sort by 'effective' (one patient: patient_id is constant)
RECURSIVE SortByEffective(_)
SortByEffective(df) ==
    IF Len(df) <= 1 THEN df
    ELSE LET first == SetMin({df[i].effective : i \in 1..Len(df)})
             at == SetMin({i \in 1..Len(df) : df[i].effective = first})
         IN  <<df[at]>> \o SortByEffective(
                 [j \in 1..(Len(df) - 1) |-> IF j < at THEN df[j] ELSE df[j + 1]])

MapToleranceMinutes == 5

Abs(x) == IF x < 0 THEN -x ELSE x

Add(a, b) ==
    IF IsNum(a) /\ IsNum(b) THEN R(a.n * b.d + b.n * a.d, a.d * b.d) ELSE NaN

\* merge_asof(direction='nearest', tolerance=5 min) for one systolic row:
\* (sys + 2 * dia) / 3 with the nearest diastolic row (a tie goes to the
\* earlier one), NaN when none is within the tolerance
MergedValue(sysrow, dia_df) ==
    LET near == {j \in 1..Len(dia_df) :
                    Abs(dia_df[j].effective - sysrow.effective) <= MapToleranceMinutes}
        dist(j) == Abs(dia_df[j].effective - sysrow.effective)
        best == {j \in near : \A l \in near : dist(j) <= dist(l)}
        back == {j \in best : dia_df[j].effective <= sysrow.effective}
        pick == IF back # {} THEN CHOOSE j \in back : \A l \in back : l <= j
                ELSE SetMin(best)
    IN  IF near = {} THEN NaN
        ELSE Div(Add(sysrow.value, Add(dia_df[pick].value, dia_df[pick].value)),
                 R(3, 1))

IsMetric(m, r) == r.metric = m

DeriveMap(df) ==
    IF {df[i].metric : i \in 1..Len(df)} \cap {"8480-6", "8462-4"} # {}
    THEN LET sys_df == SelectSeq(df, LAMBDA r : IsMetric("8480-6", r))
             dia_df == SelectSeq(df, LAMBDA r : IsMetric("8462-4", r))
         IN  df \o [i \in 1..Len(sys_df) |->
                       [k |-> "row", metric |-> "MAP",
                        value |-> MergedValue(sys_df[i], dia_df),
                        unit |-> "mmHg", effective |-> sys_df[i].effective]]
    ELSE df

ObservationsToDf(observations) ==
    LET got == ObsRows(observations, 1, <<>>)
    IN  IF got = Raise THEN Raise
        ELSE IF got.v = <<>> THEN Ok(<<>>)
        ELSE Ok(DeriveMap(SortByEffective(got.v)))

-----------------------------------------------------------------------------
(* fhir_io.py: medications *)

PRESSOR_KEYWORDS ==
    << <<"norepinephrine", {"norepinephrine", "levophed"}>>,
       <<"epinephrine", {"epinephrine", "adrenaline"}>>,
       <<"dopamine", {"dopamine"}>>,
       <<"dobutamine", {"dobutamine"}>> >>

RateKeys == <<"doseRateQuantity", "rateQuantity", "rate">>

\* a dosage field is Absent or a dict [k |-> "dict", keys, value, unit, code]:
\* `keys` are the keys the dict holds, the other fields their values
Absent == [k |-> "absent"]

\* isinstance(q, dict) and 'value' in q, for q = dosage.get(key) or {}
HasRate(q) == q.k = "dict" /\ "value" \in q.keys

\* m = [text, dosage, effectiveDateTime]: the pressor keywords in the
\* lowercased display (or code), the dosage's three rate fields, the timestamp
MedToPressor(m) ==
    LET which == KeywordMatch(PRESSOR_KEYWORDS, m.text)
        found == {i \in 1..Len(RateKeys) : HasRate(m.dosage[RateKeys[i]])}
        q == m.dosage[RateKeys[SetMin(found)]]
        rate == IF found = {} THEN None ELSE q.value
        unit == IF found = {} THEN "None" ELSE OrText(q.unit, q.code)
        t == m.effectiveDateTime
    IN  IF which = "None" THEN None
        ELSE IF t.form = "absent" THEN None
        ELSE IF ParseTime(t) = Raise THEN Raise
        ELSE [k |-> "row", pressor |-> which, rate |-> rate, unit |-> unit,
              effective |-> ParseTime(t).v]

RECURSIVE MedRows(_, _, _)
MedRows(meds, i, acc) ==
    IF i > Len(meds) THEN Ok(acc)
    ELSE LET pr == MedToPressor(meds[i])
         IN  IF pr = Raise THEN Raise
             ELSE MedRows(meds, i + 1, IF pr = None THEN acc ELSE Append(acc, pr))

MedicationsToDf(meds) ==
    LET got == MedRows(meds, 1, <<>>)
    IN  IF got = Raise THEN Raise
        ELSE Ok(SortByEffective(got.v))

-----------------------------------------------------------------------------
(* main.py: compute_patient_sofa *)

DEFAULT_FIO2 == R(21, 100)

METRICS == {"PaO2", "SpO2", "FiO2", "MAP", "Platelets", "Bilirubin",
            "Creatinine", "GCS"}

COMPONENTS == {"Resp", "Coag", "Liver", "Cardio", "CNS", "Renal"}

Pair(r) == <<r.effective, r.value>>

\* metrics[m] = list(zip(sub["effective"], sub["value"])): the unit is dropped
BuildMetrics(df) ==
    [m \in METRICS |->
        LET sub == SelectSeq(df, LAMBDA r : IsMetric(m, r))
        IN  [i \in 1..Len(sub) |-> Pair(sub[i])]]

\* float(rate) of a raw value that is not None
Float(x) == IF x.k = "num" THEN Ok(x) ELSE IF x.k = "str" THEN Ok(x.v) ELSE Raise

\* "ug/kg/min" in unit or "mcg/kg/min" in unit, unit lowercased ("" when absent)
IsPerWeightRate(unit) ==
    UnitTruthy(unit) /\ Lower(unit) \in {"ug/kg/min", "mcg/kg/min"}

\* the loop over meds_df: effective -> {pressor: rate}, or Raise
RECURSIVE BuildPressorTimes(_, _, _)
BuildPressorTimes(df, i, acc) ==
    IF i > Len(df) THEN Ok(acc)
    ELSE LET r == df[i]
             old == IF r.effective \in DOMAIN acc THEN acc[r.effective].d
                    ELSE [x \in {} |-> None]
             new == [x \in DOMAIN old \cup {r.pressor} |->
                        IF x = r.pressor THEN Float(r.rate).v ELSE old[x]]
         IN  IF r.rate # None /\ IsPerWeightRate(r.unit)
             THEN IF Float(r.rate) = Raise THEN Raise
                  ELSE BuildPressorTimes(df, i + 1,
                           [x \in DOMAIN acc \cup {r.effective} |->
                               IF x = r.effective THEN [k |-> "dict", d |-> new]
                               ELSE acc[x]])
             ELSE BuildPressorTimes(df, i + 1, acc)

\* line 80: the unit handed to norm_fio2 is the literal "%"
UsedFio2(fio2_raw) ==
    IF fio2_raw # None THEN NormFio2(fio2_raw, "%") ELSE DEFAULT_FIO2

\* the loop body up to `components`, for candidate timestamp t
LoopLocals(t) ==
    LET pao2 == LatestWithin(metrics["PaO2"], t, WINDOW_HOURS)
        spo2 == LatestWithin(metrics["SpO2"], t, WINDOW_HOURS)
        fio2_raw == LatestWithin(metrics["FiO2"], t, WINDOW_HOURS)
        fio2 == UsedFio2(fio2_raw)
        map_v == LatestWithin(metrics["MAP"], t, WINDOW_HOURS)
        plate == LatestWithin(metrics["Platelets"], t, WINDOW_HOURS)
        bili == LatestWithin(metrics["Bilirubin"], t, WINDOW_HOURS)
        creat == LatestWithin(metrics["Creatinine"], t, WINDOW_HOURS)
        gcs0 == LatestWithin(metrics["GCS"], t, WINDOW_HOURS)
        gcs == IF gcs0 = None THEN R(15, 1) ELSE gcs0
        pf == IF pao2 # None /\ Truthy(fio2) THEN Div(pao2, fio2) ELSE None
        sf == IF spo2 # None /\ Truthy(fio2) THEN Div(spo2, fio2) ELSE None
        pressor == IF t \in DOMAIN pressor_times THEN pressor_times[t] ELSE None
    IN  [k |-> "locals", t |-> t, fio2_raw |-> fio2_raw, fio2 |-> fio2,
         pao2 |-> pao2, spo2 |-> spo2, pf |-> pf, sf |-> sf, pressor |-> pressor,
         components |->
            [Resp |-> ScoreResp(pf, sf, FALSE),
             Coag |-> ScoreCoag(plate),
             Liver |-> ScoreLiver(bili),
             Cardio |-> ScoreCardio(map_v, pressor),
             CNS |-> ScoreCns(gcs),
             Renal |-> ScoreRenal(creat)]]

Missing(components) == {c \in COMPONENTS : components[c] = None}

\* variant: a row is discarded only from three unknown sub-scores on
MutHasMissing(components) == Cardinality(Missing(components)) >= 3

\* any(v is None for v in components.values())
HasMissing(components) == Missing(components) # {}

\* v if v is not None, in the sum's generator
Known(x) == IF x = None THEN 0 ELSE x.v

\* variant: the CNS sub-score left out of the sum
MutSofaTotal(components) ==
    Known(components.Resp) + Known(components.Coag) + Known(components.Liver)
    + Known(components.Cardio) + Known(components.Renal)

\* sum(v for v in components.values() if v is not None)
SofaTotal(components) ==
    Known(components.Resp) + Known(components.Coag) + Known(components.Liver)
    + Known(components.Cardio) + Known(components.CNS) + Known(components.Renal)

\* variant with cumulative state: an incomplete timestamp repeats the
\* previous row's score
MutLoopBody(t, rows_so_far) ==
    LET components == LoopLocals(t).components
    IN  IF HasMissing(components)
        THEN IF rows_so_far = <<>> THEN rows_so_far
             ELSE Append(rows_so_far,
                         [sofa_score_datetime |-> t,
                          sofa_score |-> rows_so_far[Len(rows_so_far)].sofa_score])
        ELSE Append(rows_so_far, [sofa_score_datetime |-> t,
                                  sofa_score |-> SofaTotal(components)])

\* one iteration of `for t in times`: the rows after it
LoopBody(t, rows_so_far) ==
    LET components == LoopLocals(t).components
    IN  IF HasMissing(components) THEN rows_so_far
        ELSE Append(rows_so_far, [sofa_score_datetime |-> t,
                                  sofa_score |-> SofaTotal(components)])

-----------------------------------------------------------------------------
(* Inputs of compute_patient_sofa *)

MaxObs == 6
MaxMeds == 2

Z(m) == [form |-> "zulu", minute |-> m, off |-> 0]
Garbage == [form |-> "garbage", minute |-> 0, off |-> 0]

Obs(code, text, value, unit, t) ==
    [code |-> code, text |-> text, value |-> value, unit |-> unit,
     ucode |-> "None", effectiveDateTime |-> t, issued |-> NoTime]

\* the raw observations a fetch may return, in the order it returns them
ObsPool ==
    << Obs("2703-7", {}, R(90, 1), "mmHg", Z(0)),
       Obs("3150-0", {}, R(35, 100), "None", Z(0)),
       Obs("3150-0", {}, R(60, 1), "%", Z(360)),
       [code |-> "None", text |-> {"oxygen saturation"}, value |-> R(95, 1),
        unit |-> "None", ucode |-> "%", effectiveDateTime |-> NoTime,
        issued |-> [form |-> "zulu_frac", minute |-> 360, off |-> 0]],
       Obs("8478-0", {}, R(65, 1), "mmHg", Z(0)),
       Obs("777-3", {}, R(120, 1), "10^3/uL", Z(0)),
       Obs("1975-2", {}, R(1, 1), "mg/dL",
           [form |-> "offset", minute |-> 60, off |-> 60]),
       Obs("1975-2", {}, R(195, 100), "mg/dL", Z(2)),
       Obs("2160-0", {}, [k |-> "str", v |-> R(25, 10)], "mg/dL", Z(0)),
       Obs("9269-2", {}, R(14, 1), "None", Z(2)),
       Obs("8478-0", {}, R(75, 1), "mmHg", Garbage),
       Obs("8480-6", {}, R(120, 1), "mmHg", Z(2)) >>

Dose(v, unit) ==
    [k |-> "dict", keys |-> {"value", "unit"}, value |-> v, unit |-> unit,
     code |-> "None"]

Med(text, q, t) ==
    [text |-> text,
     dosage |-> [doseRateQuantity |-> q, rateQuantity |-> Absent, rate |-> Absent],
     effectiveDateTime |-> t]

MedPool ==
    << Med({"norepinephrine", "epinephrine"}, Dose(R(15, 100), "mcg/kg/min"), Z(2)),
       Med({"dobutamine"}, Dose(R(1, 1), "MCG/KG/MIN"), Z(360)),
       Med({"dopamine"}, Dose(R(3, 1), "mg/h"), Z(0)) >>

\* the sub-list of a pool at the positions in `mask`
RECURSIVE SubList(_, _, _)
SubList(pool, mask, i) ==
    IF i > Len(pool) THEN <<>>
    ELSE (IF i \in mask THEN <<pool[i]>> ELSE <<>>) \o SubList(pool, mask, i + 1)

NoCall == [fn |-> "none"]

-----------------------------------------------------------------------------
(* compute_patient_sofa, one action per stage *)

Init ==
    /\ \E mask \in SUBSET (1..Len(ObsPool)) :
          /\ Cardinality(mask) <= MaxObs
          /\ raw_obs = SubList(ObsPool, mask, 1)
    /\ \E mask \in SUBSET (1..Len(MedPool)) :
          /\ Cardinality(mask) <= MaxMeds
          /\ raw_meds = SubList(MedPool, mask, 1)
    /\ pc = "start"
    /\ obs_df = <<>>
    /\ meds_df = <<>>
    /\ metrics = [m \in METRICS |-> <<>>]
    /\ pressor_times = <<>>
    /\ times = <<>>
    /\ visited = {}
    /\ rows = <<>>
    /\ locals = None
    /\ call = NoCall
    /\ ret = None

\* line 39: obs_df = observations_to_df(obs, subject)
ExtractObservations ==
    /\ pc = "start"
    /\ LET got == ObservationsToDf(raw_obs)
       IN  IF got = Raise
           THEN pc' = "raised" /\ UNCHANGED obs_df
           ELSE pc' = "obs_done" /\ obs_df' = got.v
    /\ UNCHANGED <<raw_obs, raw_meds, meds_df, metrics, pressor_times, times,
                   visited, rows, locals, call, ret>>

\* line 40: meds_df = medications_to_df(meds, subject)
ExtractMedications ==
    /\ pc = "obs_done"
    /\ LET got == MedicationsToDf(raw_meds)
       IN  IF got = Raise
           THEN pc' = "raised" /\ UNCHANGED meds_df
           ELSE pc' = "meds_done" /\ meds_df' = got.v
    /\ UNCHANGED <<raw_obs, raw_meds, obs_df, metrics, pressor_times, times,
                   visited, rows, locals, call, ret>>

\* lines 44-73: the early return on an empty obs_df, else metrics,
\* pressor_times and times
BuildSeries ==
    /\ pc = "meds_done"
    /\ LET pt == BuildPressorTimes(meds_df, 1, <<>>)
       IN  IF obs_df = <<>>
           THEN pc' = "done" /\ UNCHANGED <<metrics, pressor_times, times>>
           ELSE IF pt = Raise
           THEN pc' = "raised" /\ metrics' = BuildMetrics(obs_df)
                /\ UNCHANGED <<pressor_times, times>>
           ELSE /\ pc' = "loop"
                /\ metrics' = BuildMetrics(obs_df)
                /\ pressor_times' = pt.v
                /\ times' = RoundTimesToObservationTicks(
                                [i \in 1..Len(obs_df) |-> obs_df[i].effective])
    /\ UNCHANGED <<raw_obs, raw_meds, obs_df, meds_df, visited, rows, locals,
                   call, ret>>

\* lines 76-124: the loop body for the next timestamp of `times`
ScoreTimestamp ==
    /\ pc = "loop"
    /\ Cardinality(visited) < Len(times)
    /\ LET t == times[Cardinality(visited) + 1]
       IN  /\ rows' = LoopBody(t, rows)
           /\ locals' = LoopLocals(t)
           /\ visited' = visited \cup {t}
    /\ UNCHANGED <<raw_obs, raw_meds, pc, obs_df, meds_df, metrics,
                   pressor_times, times, call, ret>>

\* lines 126-127: return pd.DataFrame(rows)
Return ==
    /\ pc = "loop"
    /\ Cardinality(visited) = Len(times)
    /\ pc' = "done"
    /\ UNCHANGED <<raw_obs, raw_meds, obs_df, meds_df, metrics, pressor_times,
                   times, visited, rows, locals, call, ret>>

Next ==
    \/ ExtractObservations
    \/ ExtractMedications
    \/ BuildSeries
    \/ ScoreTimestamp
    \/ Return

Spec == Init /\ [][Next]_vars

-----------------------------------------------------------------------------
(* The loop with its iterations in any order *)

\* the loop body for any timestamp of `times` not yet visited
ScoreAnyTimestamp ==
    /\ pc = "loop"
    /\ \E i \in 1..Len(times) :
          /\ times[i] \notin visited
          /\ rows' = LoopBody(times[i], rows)
          /\ locals' = LoopLocals(times[i])
          /\ visited' = visited \cup {times[i]}
    /\ UNCHANGED <<raw_obs, raw_meds, pc, obs_df, meds_df, metrics,
                   pressor_times, times, call, ret>>

NextAnyOrder ==
    \/ ExtractObservations
    \/ ExtractMedications
    \/ BuildSeries
    \/ ScoreAnyTimestamp
    \/ Return

SpecAnyOrder == Init /\ [][NextAnyOrder]_vars

\* `for t in times`, from index i on, as the code runs it
RECURSIVE RunAscending(_, _)
RunAscending(i, acc) ==
    IF i > Len(times) THEN acc ELSE RunAscending(i + 1, LoopBody(times[i], acc))

-----------------------------------------------------------------------------
(* Unit calls: one function applied to one argument list *)

MaxSeries == 3
MaxRaw == 3

\* the query instant: two minutes past four windows
QueryTime == 4 * WINDOW_HOURS * MinutesPerHour + 2

\* sequences over S of length at most n
SeqsUpTo(S, n) == UNION {[1..l -> S] : l \in 0..n}

\* readings at t-24h01m, t-6h01m, t-6h, t-5h59m, t and t+1m
LatestWithinCalls ==
    {[fn |-> "latest_within", records |-> s, t |-> QueryTime, window_hours |-> w] :
        s \in SeqsUpTo({QueryTime - 1441, QueryTime - 361, QueryTime - 360,
                        QueryTime - 359, QueryTime, QueryTime + 1}
                       \X {R(1, 1), R(2, 1)}, MaxSeries),
        w \in {6, 24}}

\* a dict over the keys in `keys`, with the rates in `rates`
Dicts(rates) ==
    UNION {[keys -> rates] : keys \in SUBSET {"dopamine", "norepinephrine",
                                              "epinephrine", "dobutamine"}}

PressorOk(d) ==
    /\ "dopamine" \in DOMAIN d =>
          d["dopamine"] \in {R(49, 10), R(5, 1), R(51, 10), R(52, 10), R(15, 1),
                             R(151, 10)}
    /\ "norepinephrine" \in DOMAIN d =>
          d["norepinephrine"] \in {R(0, 1), R(1, 10), R(15, 100)}
    /\ "epinephrine" \in DOMAIN d => d["epinephrine"] \in {R(5, 100), R(15, 100)}
    /\ "dobutamine" \in DOMAIN d => d["dobutamine"] = R(1, 1)

ScoreCardioCalls ==
    {[fn |-> "score_cardio", map_mmHg |-> m, pressor |-> p] :
        m \in {None, R(65, 1), R(70, 1)},
        p \in {None} \cup
              {[k |-> "dict", d |-> d] :
                  d \in {e \in Dicts({R(49, 10), R(5, 1), R(51, 10), R(52, 10),
                                      R(15, 1), R(151, 10), R(0, 1), R(1, 10),
                                      R(15, 100), R(5, 100), R(1, 1)}) :
                            PressorOk(e)}}}

ScoreRespCalls ==
    {[fn |-> "score_resp", pao2_fio2 |-> pf, spo2_fio2 |-> sf, on_resp_support |-> b] :
        pf \in {None, R(450, 1), R(400, 1), R(3999, 10), R(300, 1), R(250, 1),
                R(200, 1), R(100, 1), R(99, 1)},
        sf \in {None, R(310, 1), R(302, 1), R(301, 1), R(221, 1), R(220, 1),
                R(150, 1), R(142, 1), R(141, 1), R(67, 1), R(66, 1), R(50, 1)},
        b \in BOOLEAN}

\* dosage fields: absent, a dict with "value": null, a dict with no "value"
\* key, a dict with a rate (its number differs per field)
DosageFields(v) ==
    {Absent,
     [k |-> "dict", keys |-> {"value"}, value |-> None, unit |-> "None",
      code |-> "None"],
     [k |-> "dict", keys |-> {"unit"}, value |-> None, unit |-> "ug/kg/min",
      code |-> "None"],
     Dose(R(v, 1), "ug/kg/min")}

MedToPressorCalls ==
    {[fn |-> "med_to_pressor",
      m |-> [text |-> x,
             dosage |-> [doseRateQuantity |-> a, rateQuantity |-> b, rate |-> c],
             effectiveDateTime |-> t]] :
        x \in {{"dopamine"}, {"norepinephrine", "epinephrine"}, {}},
        a \in DosageFields(3), b \in DosageFields(5), c \in DosageFields(7),
        t \in {Z(0), NoTime, Garbage}}

ExtractPool ==
    << Obs("8480-6", {}, R(120, 1), "mmHg", Z(0)),
       Obs("8462-4", {}, R(80, 1), "mmHg", Z(2)),
       Obs("8462-4", {}, R(90, 1), "mmHg", Z(10)),
       Obs("8478-0", {}, R(65, 1), "mmHg", Z(30)),
       Obs("777-3", {}, R(120, 1), "10^3/uL", Garbage),
       Obs("1975-2", {}, [k |-> "text"], "mg/dL", Z(0)),
       Obs("X", {"mean arterial pressure", "map"}, R(75, 1), "mmHg", Z(2)) >>

\* lists of at most MaxRaw distinct records of the pool, in any order
ObservationsToDfCalls ==
    {[fn |-> "observations_to_df",
      observations |-> [i \in 1..Len(ix) |-> ExtractPool[ix[i]]]] :
        ix \in {s \in SeqsUpTo(1..Len(ExtractPool), MaxRaw) :
                   \A i, j \in 1..Len(s) : i # j => s[i] # s[j]}}

InitUnits ==
    /\ call \in LatestWithinCalls \cup ScoreCardioCalls \cup ScoreRespCalls
                \cup MedToPressorCalls \cup ObservationsToDfCalls
    /\ pc = "call"
    /\ ret = None
    /\ raw_obs = <<>>
    /\ raw_meds = <<>>
    /\ obs_df = <<>>
    /\ meds_df = <<>>
    /\ metrics = [m \in METRICS |-> <<>>]
    /\ pressor_times = <<>>
    /\ times = <<>>
    /\ visited = {}
    /\ rows = <<>>
    /\ locals = None

CallLatestWithin ==
    /\ pc = "call"
    /\ call.fn = "latest_within"
    /\ ret' = LatestWithin(call.records, call.t, call.window_hours)
    /\ pc' = "ret"
    /\ UNCHANGED <<raw_obs, raw_meds, obs_df, meds_df, metrics, pressor_times,
                   times, visited, rows, locals, call>>

CallScoreCardio ==
    /\ pc = "call"
    /\ call.fn = "score_cardio"
    /\ ret' = ScoreCardio(call.map_mmHg, call.pressor)
    /\ pc' = "ret"
    /\ UNCHANGED <<raw_obs, raw_meds, obs_df, meds_df, metrics, pressor_times,
                   times, visited, rows, locals, call>>

CallScoreResp ==
    /\ pc = "call"
    /\ call.fn = "score_resp"
    /\ ret' = ScoreResp(call.pao2_fio2, call.spo2_fio2, call.on_resp_support)
    /\ pc' = "ret"
    /\ UNCHANGED <<raw_obs, raw_meds, obs_df, meds_df, metrics, pressor_times,
                   times, visited, rows, locals, call>>

CallMedToPressor ==
    /\ pc = "call"
    /\ call.fn = "med_to_pressor"
    /\ ret' = MedToPressor(call.m)
    /\ pc' = "ret"
    /\ UNCHANGED <<raw_obs, raw_meds, obs_df, meds_df, metrics, pressor_times,
                   times, visited, rows, locals, call>>

CallObservationsToDf ==
    /\ pc = "call"
    /\ call.fn = "observations_to_df"
    /\ ret' = ObservationsToDf(call.observations)
    /\ pc' = "ret"
    /\ UNCHANGED <<raw_obs, raw_meds, obs_df, meds_df, metrics, pressor_times,
                   times, visited, rows, locals, call>>

NextUnits ==
    \/ CallLatestWithin
    \/ CallScoreCardio
    \/ CallScoreResp
    \/ CallMedToPressor
    \/ CallObservationsToDf

SpecUnits == InitUnits /\ [][NextUnits]_vars

-----------------------------------------------------------------------------
(* Properties of compute_patient_sofa (Spec) *)

RowAt(t) == \E i \in 1..Len(rows) : rows[i].sofa_score_datetime = t

AllKnown(t) == \A c \in COMPONENTS : LoopLocals(t).components[c] # None

\* C1: a candidate timestamp whose loop body has run has a row if and only
\* if all six sub-scores computed at it are known; rows exist only for
\* candidate timestamps; and a patient whose Cardio sub-score is unknown at
\* every candidate timestamp returns no row.
C1_RowIffAllSixKnown ==
    /\ \A t \in visited : RowAt(t) <=> AllKnown(t)
    /\ \A i \in 1..Len(rows) : rows[i].sofa_score_datetime \in visited
    /\ (pc = "done"
        /\ \A i \in 1..Len(times) : LoopLocals(times[i]).components.Cardio = None)
       => rows = <<>>

\* the run is over, one timestamp has a row and another, with five known
\* sub-scores and one unknown, has none
C1_Witness ==
    /\ pc = "done"
    /\ \E t \in visited : RowAt(t)
    /\ \E t \in visited :
          /\ ~RowAt(t)
          /\ Cardinality(Missing(LoopLocals(t).components)) = 1

\* C2: every row's score is the sum of the six sub-scores computed at its
\* timestamp, each an integer in 0..4, so the score is in 0..24.
C2_TotalIsSumOfSix ==
    \A i \in 1..Len(rows) :
        LET c == LoopLocals(rows[i].sofa_score_datetime).components
        IN  /\ \A x \in COMPONENTS : c[x].k = "int" /\ c[x].v \in 0..4
            /\ rows[i].sofa_score = c.Resp.v + c.Coag.v + c.Liver.v + c.Cardio.v
                                    + c.CNS.v + c.Renal.v
            /\ rows[i].sofa_score \in 0..24

\* a row whose score adds at least three non-zero sub-scores, CNS among them
C2_Witness ==
    \E i \in 1..Len(rows) :
        LET c == LoopLocals(rows[i].sofa_score_datetime).components
        IN  /\ c.CNS.v > 0
            /\ Cardinality({x \in COMPONENTS : c[x].v > 0}) >= 3
            /\ rows[i].sofa_score >= 5

\* the FiO2 rows of obs_df in the window of t with the latest instant
LatestFio2Rows(t) ==
    LET inwin == {i \in 1..Len(obs_df) :
                     /\ obs_df[i].metric = "FiO2"
                     /\ t - WINDOW_HOURS * MinutesPerHour <= obs_df[i].effective
                     /\ obs_df[i].effective <= t}
    IN  {i \in inwin : \A j \in inwin : obs_df[j].effective <= obs_df[i].effective}

\* C7: the FiO2 fraction the loop body uses at t is the latest in-window
\* FiO2 observation normalized by that observation's own unit, and 0.21 when
\* there is none; pf is PaO2 divided by that fraction.
C7_Fio2NormalizedByOwnUnit ==
    locals # None =>
        /\ IF LatestFio2Rows(locals.t) = {}
           THEN NumEq(locals.fio2, DEFAULT_FIO2)
           ELSE \E i \in LatestFio2Rows(locals.t) :
                   NumEq(locals.fio2, NormFio2(obs_df[i].value, obs_df[i].unit))
        /\ (locals.pao2 # None /\ LatestFio2Rows(locals.t) # {}) =>
              \E i \in LatestFio2Rows(locals.t) :
                 NumEq(locals.pf, Div(locals.pao2,
                                      NormFio2(obs_df[i].value, obs_df[i].unit)))

Unparseable(ts) == ts.form = "garbage"

\* C8: a raw observation whose timestamp text is present but unparseable is
\* dropped on its own: no failure leaves observations_to_df or
\* compute_patient_sofa, and obs_df is what the other records give.
C8_BadTimestampDroppedAlone ==
    (pc # "start"
     /\ \E i \in 1..Len(raw_obs) : Unparseable(raw_obs[i].effectiveDateTime))
    => /\ pc # "raised"
       /\ obs_df = ObservationsToDf(
                       SelectSeq(raw_obs,
                                 LAMBDA o : ~Unparseable(o.effectiveDateTime))).v

-----------------------------------------------------------------------------
(* Order independence of the loop (SpecAnyOrder) *)

RowSet(rs) == {rs[i] : i \in 1..Len(rs)}

\* C10: whatever the order in which the candidate timestamps are evaluated,
\* the returned set of (timestamp, score) rows is the one the ascending loop
\* returns, with at most one row per candidate timestamp.
C10_OrderIrrelevant ==
    /\ pc = "done" => RowSet(rows) = RowSet(RunAscending(1, <<>>))
    /\ \A i, j \in 1..Len(rows) :
          rows[i].sofa_score_datetime = rows[j].sofa_score_datetime => i = j

\* a finished run that emitted a later timestamp's row before an earlier
\* one's, next to a timestamp that got no row
C10_Witness ==
    /\ pc = "done"
    /\ Len(rows) >= 2
    /\ rows[1].sofa_score_datetime > rows[2].sofa_score_datetime
    /\ Len(times) > Len(rows)

-----------------------------------------------------------------------------
(* Properties of the unit calls (SpecUnits) *)

Returned(fn) == pc = "ret" /\ call.fn = fn

\* the positions of call.records inside [t - w, t]
InRange ==
    {i \in 1..Len(call.records) :
        /\ call.t - call.window_hours * MinutesPerHour <= call.records[i][1]
        /\ call.records[i][1] <= call.t}

\* C3: latest_within returns the value of a pair whose timestamp is the
\* maximum among the pairs with t - w <= timestamp <= t, both bounds
\* inclusive, and returns unknown exactly when no pair lies in that range.
C3_LatestWithinWindow ==
    Returned("latest_within") =>
        /\ ret = None <=> InRange = {}
        /\ InRange # {} =>
              \E i \in InRange :
                 /\ \A j \in InRange : call.records[j][1] <= call.records[i][1]
                 /\ ret = call.records[i][2]

\* w = 6h, readings at t-6h01m, t-5h59m and t+1m with different values: the
\* one at t-5h59m is returned
C3_Witness ==
    /\ Returned("latest_within")
    /\ call.window_hours = 6
    /\ call.records = << <<call.t - 361, R(1, 1)>>, <<call.t + 1, R(1, 1)>>,
                         <<call.t - 359, R(2, 1)>> >>
    /\ ret = R(2, 1)

Has(p, drug) == p.k = "dict" /\ drug \in DOMAIN p.d

\* the priority rule of the cardiovascular score; `open` says whether the
\* dopamine band of score 3 excludes its lower end 5.1
CardioRule(map_mmHg, p, open) ==
    IF Has(p, "dobutamine") THEN Sc(2)
    ELSE IF \/ Has(p, "dopamine") /\ Gt(p.d["dopamine"], R(15, 1))
            \/ Has(p, "norepinephrine") /\ Gt(p.d["norepinephrine"], R(1, 10))
            \/ Has(p, "epinephrine") /\ Gt(p.d["epinephrine"], R(1, 10))
    THEN Sc(4)
    ELSE IF \/ /\ Has(p, "dopamine")
               /\ IF open THEN Gt(p.d["dopamine"], R(51, 10))
                  ELSE Ge(p.d["dopamine"], R(51, 10))
               /\ Le(p.d["dopamine"], R(15, 1))
            \/ /\ Has(p, "norepinephrine")
               /\ Gt(p.d["norepinephrine"], R(0, 1))
               /\ Le(p.d["norepinephrine"], R(1, 10))
            \/ /\ Has(p, "epinephrine")
               /\ Gt(p.d["epinephrine"], R(0, 1))
               /\ Le(p.d["epinephrine"], R(1, 10))
    THEN Sc(3)
    ELSE IF Has(p, "dopamine") /\ Lt(p.d["dopamine"], R(5, 1)) THEN Sc(2)
    ELSE IF map_mmHg = None THEN None
    ELSE IF Ge(map_mmHg, R(70, 1)) THEN Sc(0)
    ELSE Sc(1)

\* C5 as stated: the priority order with dopamine in (5.1, 15], 5.1
\* excluded, giving 3.
C5_CardioPriority_Stated ==
    Returned("score_cardio") => ret = CardioRule(call.map_mmHg, call.pressor, TRUE)

\* C5 amended: the same priority order with dopamine in [5.1, 15], 5.1
\* included, giving 3.
C5_CardioPriority ==
    Returned("score_cardio") => ret = CardioRule(call.map_mmHg, call.pressor, FALSE)

\* dopamine alone at exactly 5.1 with a MAP of 70: the score is 3, not the
\* MAP's 0
C5_Witness ==
    /\ Returned("score_cardio")
    /\ call.map_mmHg = R(70, 1)
    /\ call.pressor = [k |-> "dict", d |-> [x \in {"dopamine"} |-> R(51, 10)]]
    /\ ret = Sc(3)

\* C6: score_resp bands pf when it is known and ignores sf; with pf unknown
\* it bands sf: > 302 -> 0, [221, 302) -> 1, [142, 221) -> 2, below 142 -> 2
\* without support and 3 with, below 67 -> 3 without support and 4 with;
\* both unknown -> unknown.
C6_RespBands ==
    Returned("score_resp") =>
        LET pf == call.pao2_fio2
            sf == call.spo2_fio2
            sup == call.on_resp_support
        IN  /\ (pf # None /\ Ge(pf, R(400, 1))) => ret = Sc(0)
            /\ (pf # None /\ Ge(pf, R(300, 1)) /\ Lt(pf, R(400, 1))) => ret = Sc(1)
            /\ (pf # None /\ Ge(pf, R(200, 1)) /\ Lt(pf, R(300, 1))) => ret = Sc(2)
            /\ (pf # None /\ Ge(pf, R(100, 1)) /\ Lt(pf, R(200, 1))) => ret = Sc(3)
            /\ (pf # None /\ Lt(pf, R(100, 1))) => ret = Sc(4)
            /\ (pf = None /\ sf = None) => ret = None
            /\ (pf = None /\ sf # None) =>
                  /\ Gt(sf, R(302, 1)) => ret = Sc(0)
                  /\ (Ge(sf, R(221, 1)) /\ Lt(sf, R(302, 1))) => ret = Sc(1)
                  /\ (Ge(sf, R(142, 1)) /\ Lt(sf, R(221, 1))) => ret = Sc(2)
                  /\ (Ge(sf, R(67, 1)) /\ Lt(sf, R(142, 1))) =>
                        ret = (IF sup THEN Sc(3) ELSE Sc(2))
                  /\ Lt(sf, R(67, 1)) => ret = (IF sup THEN Sc(4) ELSE Sc(3))

\* the rate of the first of the three fields whose value is non-null
FirstNonNullRate(dosage) ==
    LET nonnull == {i \in 1..Len(RateKeys) :
                       /\ dosage[RateKeys[i]].k = "dict"
                       /\ "value" \in dosage[RateKeys[i]].keys
                       /\ dosage[RateKeys[i]].value # None}
    IN  IF nonnull = {} THEN None ELSE dosage[RateKeys[SetMin(nonnull)]].value

\* C9: for a record that classifies to a pressor and has a timestamp,
\* med_to_pressor's rate is the value of the first of doseRateQuantity,
\* rateQuantity, rate whose value is non-null; an absent or null-valued
\* higher-priority field is skipped.
C9_FirstNonNullRateWins ==
    (Returned("med_to_pressor") /\ ret # None /\ ret # Raise) =>
        ret.rate = FirstNonNullRate(call.m.dosage)

RawInstant(o) == ParseTime(o.effectiveDateTime).v

\* the diastolic records of `obs` within the tolerance of systolic record s
DiastolicNear(obs, s) ==
    {j \in 1..Len(obs) :
        /\ obs[j].code = "8462-4"
        /\ Abs(RawInstant(obs[j]) - RawInstant(obs[s])) <= MapToleranceMinutes}

\* C4: for a systolic reading (8480-6) at t, observations_to_df adds a MAP
\* observation at t with value (systolic + 2 * diastolic) / 3 from the
\* diastolic reading (8462-4) nearest to t when one is within 5 minutes of
\* t, and none when no diastolic reading is within 5 minutes.
C4_DerivedMap ==
    (Returned("observations_to_df") /\ ret # Raise) =>
        \A s \in 1..Len(call.observations) :
            call.observations[s].code = "8480-6" =>
                LET obs == call.observations
                    near == DiastolicNear(obs, s)
                    derived == {i \in 1..Len(ret.v) :
                                   /\ ret.v[i].metric = "MAP"
                                   /\ ret.v[i].effective = RawInstant(obs[s])}
                IN  IF near = {} THEN derived = {}
                    ELSE \E j \in near :
                            /\ \A l \in near :
                                  Abs(RawInstant(obs[j]) - RawInstant(obs[s]))
                                  <= Abs(RawInstant(obs[l]) - RawInstant(obs[s]))
                            /\ \E i \in derived :
                                  NumEq(ret.v[i].value,
                                        Div(Add(obs[s].value,
                                                Add(obs[j].value, obs[j].value)),
                                            R(3, 1)))

=============================================================================
